---------------------------- MODULE Spec2Model ----------------------------
(***************************************************************************)
(* Needle generation of the clang plugin (dxr/plugins/clang/needles.py).   *)
(*                                                                         *)
(* The generators are pure functions of three inputs: the condensed fact   *)
(* store, the call graph and the inheritance map.  They are modelled as    *)
(* operators; the state machine draws the inputs in its initial states and *)
(* has one action per generator, which stores what a consumer that drains  *)
(* the generator receives: the needles yielded, and whether the iteration  *)
(* ended with an exception.                                                *)
(***************************************************************************)
EXTENDS Integers, Sequences, FiniteSets, TLC

VARIABLES condensed, inherit, graph, call, result

vars == <<condensed, inherit, graph, call, result>>

-----------------------------------------------------------------------------
(* Python values *)

\* None, as an argument default.  `condensed_key or kind` treats None and the
\* empty string alike (both are falsy), so one value stands for both.
None == ""

\* key in mapping
Has(f, k) == k \in DOMAIN f

Min(S) == CHOOSE m \in S : \A n \in S : m <= n

\* str(o) of a value that is already text
str(o) == o

\* The order in which Python iterates a set or the keys of a dict: fixed for a
\* given object, not specified by the language.
RECURSIVE IterOrder(_)
IterOrder(S) ==
    IF S = {} THEN <<>>
    ELSE LET x == CHOOSE y \in S : TRUE IN <<x>> \o IterOrder(S \ {x})

\* icat / chain.from_iterable over a sequence of sequences
RECURSIVE icat(_)
icat(ss) == IF ss = <<>> THEN <<>> ELSE Head(ss) \o icat(Tail(ss))

\* The indexes of S in ascending order
RECURSIVE Ascending(_)
Ascending(S) ==
    IF S = {} THEN <<>>
    ELSE LET m == Min(S) IN <<m>> \o Ascending(S \ {m})

\* What draining a generator expression
\*     (emit(f) for f in fs if keep(f))
\* reaches.  bad holds the indexes of the facts for which evaluating the
\* condition or the element raises (a subscript of a key the fact does not
\* have), keep those whose condition holds.  The generator yields one element
\* for each kept fact before the first bad one, in order, and then ends: with
\* the exception if there is a bad fact.
Generate(fs, bad, keep) ==
    LET stop == IF bad = {} THEN Len(fs) + 1 ELSE Min(bad)
        idx  == Ascending({i \in keep : i < stop})
    IN  [facts |-> [k \in 1..Len(idx) |-> fs[idx[k]]], err |-> bad # {}]

\* A list comprehension builds the whole list before returning it: when an
\* element raises, no list is returned at all.
ListComp(fs, bad, keep) ==
    IF bad # {} THEN [facts |-> <<>>, err |-> TRUE] ELSE Generate(fs, bad, keep)

\* The indexes of the facts of fs that lack one of the keys
Lacking(fs, keys) == {i \in 1..Len(fs) : ~(keys \subseteq DOMAIN fs[i])}

\* itertools.chain of two iterables, drained in order
chain(a, b) ==
    IF a.err THEN a ELSE [out |-> a.out \o b.out, err |-> b.err]

\* An iterable that cannot raise
Ok(s) == [out |-> s, err |-> FALSE]

-----------------------------------------------------------------------------
(* The fact store *)

\* A table of the store is tagged with the Python type of its value:
\* mapping = TRUE for a dict (facts grouped by kind), FALSE for a list of facts.
\* vals holds the facts either way.

\* What the store yields for a table it does not hold.
MissingTable == <<>>

\* condensed[key]
Table(store, key) ==
    IF key \in DOMAIN store THEN store[key].vals ELSE MissingTable

-----------------------------------------------------------------------------
(* Call graph needles *)

\* A call edge is [caller |-> <<name, span>>, callee |-> <<name, span>>];
\* Python's call.callee[0] is the tuple's first element.

callee_needles(g) ==
    [i \in 1..Len(g) |-> << <<"c-callee", g[i].callee[1]>>, g[i].callee[2] >>]

caller_needles(g) ==
    [i \in 1..Len(g) |-> << <<"c-called-by", g[i].caller[1]>>, g[i].caller[2] >>]

-----------------------------------------------------------------------------
(* Needles read from the fact store *)

sig_needles(store) ==
    LET fs == Table(store, "function")
        g  == Generate(fs, Lacking(fs, {"type", "span"}), 1..Len(fs))
    IN  [out |-> [i \in 1..Len(g.facts) |->
                    << <<"c-sig", str(g.facts[i].type)>>, g.facts[i].span >>],
         err |-> g.err]

\* inherit_needles without its `if c['kind'] == 'class'`
inherit_needles_any_kind(store, tag, func) ==
    LET fs   == Table(store, "type")
        keep == 1..Len(fs)
        bad  == Lacking(fs, {"kind", "name", "span"})
        g    == Generate(fs, bad, keep)
        children == [i \in 1..Len(g.facts) |->
                       LET c == g.facts[i]
                       IN  [k \in 1..Len(func[c.name]) |-> <<func[c.name][k], c.span>>]]
        cat  == icat(children)
    IN  [out |-> [i \in 1..Len(cat) |-> << <<"c-" \o tag, cat[i][1]>>, cat[i][2] >>],
         err |-> g.err]

\* func maps a node name to the sequence of other node names it iterates.
inherit_needles(store, tag, func) ==
    LET fs   == Table(store, "type")
        keep == {i \in 1..Len(fs) : Has(fs[i], "kind") /\ fs[i].kind = "class"}
        bad  == Lacking(fs, {"kind"})
                  \cup {i \in keep : ~({"name", "span"} \subseteq DOMAIN fs[i])}
        g    == Generate(fs, bad, keep)
        children == [i \in 1..Len(g.facts) |->
                       LET c == g.facts[i]
                       IN  [k \in 1..Len(func[c.name]) |-> <<func[c.name][k], c.span>>]]
        cat  == icat(children)
    IN  [out |-> [i \in 1..Len(cat) |-> << <<"c-" \o tag, cat[i][1]>>, cat[i][2] >>],
         err |-> g.err]

\* The names of the facts of the type table
TypeNames(store) ==
    LET fs == Table(store, "type")
    IN  {fs[i].name : i \in {j \in 1..Len(fs) : Has(fs[j], "name")}}

child_needles(store, inh) ==
    inherit_needles(store, "child",
        [name \in TypeNames(store) |->
            IF name \in DOMAIN inh THEN IterOrder(inh[name]) ELSE <<>>])

get_parents(inh, name) ==
    LET items == IterOrder(DOMAIN inh)
    IN  SelectSeq(items, LAMBDA parent : name \in inh[parent])

parent_needles(store, inh) ==
    inherit_needles(store, "parent",
        [name \in TypeNames(store) |-> get_parents(inh, name)])

\* member_needles without its `if is_mapping(vals): continue`
member_needles_any_table(store) ==
    LET tables == IterOrder(DOMAIN store)
        rows == icat([t \in 1..Len(tables) |-> store[tables[t]].vals])
        keep == {i \in 1..Len(rows) : Has(rows[i], "scope")}
        bad  == {i \in keep : ~Has(rows[i].scope, "name") \/ ~Has(rows[i], "span")}
        g    == Generate(rows, bad, keep)
    IN  [out |-> [i \in 1..Len(g.facts) |->
                    << <<"c-member", g.facts[i].scope.name>>, g.facts[i].span >>],
         err |-> g.err]

member_needles(store) ==
    LET tables == IterOrder(DOMAIN store)
        rows == icat([t \in 1..Len(tables) |->
                        IF store[tables[t]].mapping THEN <<>>
                        ELSE store[tables[t]].vals])
        keep == {i \in 1..Len(rows) : Has(rows[i], "scope")}
        bad  == {i \in keep : ~Has(rows[i].scope, "name") \/ ~Has(rows[i], "span")}
        g    == Generate(rows, bad, keep)
    IN  [out |-> [i \in 1..Len(g.facts) |->
                    << <<"c-member", g.facts[i].scope.name>>, g.facts[i].span >>],
         err |-> g.err]

\* A span getter is the path of keys it subscripts: itemgetter('span') is
\* <<"span">>, lambda x: x['override']['span'] is <<"override", "span">>.
RECURSIVE HasPath(_, _)
HasPath(f, path) ==
    path = <<>> \/ (Has(f, Head(path)) /\ HasPath(f[Head(path)], Tail(path)))

RECURSIVE GetPath(_, _)
GetPath(f, path) ==
    IF path = <<>> THEN f ELSE GetPath(f[Head(path)], Tail(path))

over_needles(store, tag, name_key, get_span) ==
    LET fs   == Table(store, "function")
        keep == {i \in 1..Len(fs) :
                    Has(fs[i], "override") /\ Has(fs[i].override, name_key)}
        bad  == {i \in keep : ~HasPath(fs[i], get_span)}
        g    == Generate(fs, bad, keep)
    IN  [out |-> [i \in 1..Len(g.facts) |->
                    << <<"c-" \o tag, g.facts[i].override[name_key]>>,
                       GetPath(g.facts[i], get_span) >>],
         err |-> g.err]

overrides_needles(store) ==
    chain(over_needles(store, "overrides", "name", <<"span">>),
          over_needles(store, "overrides", "qualname", <<"span">>))

overridden_needles(store) ==
    chain(over_needles(store, "overridden", "name", <<"override", "span">>),
          over_needles(store, "overridden", "qualname", <<"override", "span">>))

\* qualified_needles reading condensed[kind] whatever condensed_key is
qualified_needles_by_kind(store, kind, condensed_key) ==
    LET fs == Table(store, kind)
        g  == Generate(fs, Lacking(fs, {"name", "qualname", "span"}), 1..Len(fs))
    IN  [out |-> [i \in 1..Len(g.facts) |->
                    << "c_" \o kind,
                       [name |-> g.facts[i].name, qualname |-> g.facts[i].qualname],
                       g.facts[i].span >>],
         err |-> g.err]

\* qualified_needles passing over a fact that has no qualname
qualified_needles_skipping(store, kind, condensed_key) ==
    LET fs == Table(store, IF condensed_key # None THEN condensed_key ELSE kind)
        g  == Generate(fs, {}, 1..Len(fs) \ Lacking(fs, {"name", "qualname", "span"}))
    IN  [out |-> [i \in 1..Len(g.facts) |->
                    << "c_" \o kind,
                       [name |-> g.facts[i].name, qualname |-> g.facts[i].qualname],
                       g.facts[i].span >>],
         err |-> g.err]

qualified_needles(store, kind, condensed_key) ==
    LET fs == Table(store, IF condensed_key # None THEN condensed_key ELSE kind)
        g  == Generate(fs, Lacking(fs, {"name", "qualname", "span"}), 1..Len(fs))
    IN  [out |-> [i \in 1..Len(g.facts) |->
                    << "c_" \o kind,
                       [name |-> g.facts[i].name, qualname |-> g.facts[i].qualname],
                       g.facts[i].span >>],
         err |-> g.err]

\* ref_needles comparing f['kind'] with kind whatever condensed_key is
ref_needles_by_kind(store, kind, condensed_key) ==
    LET fs   == Table(store, "ref")
        keep == {i \in 1..Len(fs) : Has(fs[i], "kind") /\ fs[i].kind = kind}
        bad  == Lacking(fs, {"kind"})
                  \cup {i \in keep : ~({"name", "qualname", "span"} \subseteq DOMAIN fs[i])}
        g    == Generate(fs, bad, keep)
    IN  [out |-> [i \in 1..Len(g.facts) |->
                    << "c_" \o kind \o "_ref",
                       [name |-> g.facts[i].name, qualname |-> g.facts[i].qualname],
                       g.facts[i].span >>],
         err |-> g.err]

ref_needles(store, kind, condensed_key) ==
    LET key  == IF condensed_key # None THEN condensed_key ELSE kind
        fs   == Table(store, "ref")
        keep == {i \in 1..Len(fs) : Has(fs[i], "kind") /\ fs[i].kind = key}
        bad  == Lacking(fs, {"kind"})
                  \cup {i \in keep : ~({"name", "qualname", "span"} \subseteq DOMAIN fs[i])}
        g    == Generate(fs, bad, keep)
    IN  [out |-> [i \in 1..Len(g.facts) |->
                    << "c_" \o kind \o "_ref",
                       [name |-> g.facts[i].name, qualname |-> g.facts[i].qualname],
                       g.facts[i].span >>],
         err |-> g.err]

\* warning_needles carrying w['opt'] where it should carry w['msg']
warning_needles_opt(store) ==
    LET fs == Table(store, "warning")
        g  == ListComp(fs, Lacking(fs, {"opt", "span"}), 1..Len(fs))
    IN  [out |-> [i \in 1..Len(g.facts) |->
                    <<"c_warning", [name |-> g.facts[i].opt], g.facts[i].span>>],
         err |-> g.err]

warning_needles(store) ==
    LET fs == Table(store, "warning")
        g  == ListComp(fs, Lacking(fs, {"msg", "span"}), 1..Len(fs))
    IN  [out |-> [i \in 1..Len(g.facts) |->
                    <<"c_warning", [name |-> g.facts[i].msg], g.facts[i].span>>],
         err |-> g.err]

warning_opt_needles(store) ==
    LET fs == Table(store, "warning")
        g  == ListComp(fs, Lacking(fs, {"opt", "span"}), 1..Len(fs))
    IN  [out |-> [i \in 1..Len(g.facts) |->
                    <<"c_warning_opt", [name |-> g.facts[i].opt], g.facts[i].span>>],
         err |-> g.err]

\* needles() with ref_needles(condensed, 'function') left out of the chain
chained_needles_no_refs(store) ==
    IF warning_needles(store).err \/ warning_opt_needles(store).err
    THEN [out |-> <<>>, err |-> TRUE]
    ELSE
    chain(qualified_needles(store, "function", None),
    chain(qualified_needles(store, "type", None),
    chain(ref_needles(store, "type", None),
    chain(qualified_needles(store, "type", "typedef"),
    chain(ref_needles(store, "type", "typedef"),
    chain(qualified_needles(store, "var", "variable"),
    chain(ref_needles(store, "var", "variable"),
    chain(qualified_needles(store, "namespace", None),
    chain(ref_needles(store, "namespace", None),
    chain(qualified_needles(store, "namespace_alias", None),
    chain(ref_needles(store, "namespace_alias", None),
    chain(warning_needles(store),
          warning_opt_needles(store)))))))))))))

\* The needles that needles() chains, as the line folder drains them.  The two
\* warning lists are built while the arguments of chain() are evaluated, so an
\* exception in them is raised before the first needle is yielded.
chained_needles(store) ==
    IF warning_needles(store).err \/ warning_opt_needles(store).err
    THEN [out |-> <<>>, err |-> TRUE]
    ELSE
    chain(qualified_needles(store, "function", None),
    chain(ref_needles(store, "function", None),
    chain(qualified_needles(store, "type", None),
    chain(ref_needles(store, "type", None),
    chain(qualified_needles(store, "type", "typedef"),
    chain(ref_needles(store, "type", "typedef"),
    chain(qualified_needles(store, "var", "variable"),
    chain(ref_needles(store, "var", "variable"),
    chain(qualified_needles(store, "namespace", None),
    chain(ref_needles(store, "namespace", None),
    chain(qualified_needles(store, "namespace_alias", None),
    chain(ref_needles(store, "namespace_alias", None),
    chain(warning_needles(store),
          warning_opt_needles(store))))))))))))))

-----------------------------------------------------------------------------
(* The line folder: split_into_lines, with_start_and_end, iterable_per_line *)

\* The lengths of the lines of the file the facts are about.  Offsets are
\* 0-based; line l holds the offsets LineStart(l) .. LineEnd(l) - 1.
FileLines == <<2, 1, 2>>

RECURSIVE LineStart(_)
LineStart(l) == IF l = 1 THEN 0 ELSE LineStart(l - 1) + FileLines[l - 1]

LineEnd(l) == LineStart(l) + FileLines[l]

LineOf(offset) ==
    CHOOSE l \in 1..Len(FileLines) : LineStart(l) <= offset /\ offset < LineEnd(l)

Max2(a, b) == IF a >= b THEN a ELSE b
Min2(a, b) == IF a <= b THEN a ELSE b

\* One needle for each line the span touches, its span clipped to the line
split_one(needle) ==
    LET s == needle[3][1]
        e == needle[3][2]
    IN  [k \in 1..(LineOf(e) - LineOf(s) + 1) |->
            LET l == LineOf(s) + k - 1
            IN  <<needle[1], needle[2],
                  <<Max2(s, LineStart(l)), Min2(e, LineEnd(l))>> >>]

split_into_lines(needles) ==
    icat([i \in 1..Len(needles) |-> split_one(needles[i])])

\* (tag, value, start column, end column, line) of a needle within one line
with_start_and_end(needles) ==
    [i \in 1..Len(needles) |->
        LET l == LineOf(needles[i][3][1])
        IN  <<needles[i][1], needles[i][2],
              needles[i][3][1] - LineStart(l), needles[i][3][2] - LineStart(l), l>>]

\* One record for each line touched, in ascending line order; the fragments
\* of a line in the order they arrive
iterable_per_line(fragments) ==
    LET touched == Ascending({fragments[i][5] : i \in 1..Len(fragments)})
        on(l) == SelectSeq(fragments, LAMBDA f : f[5] = l)
    IN  [r \in 1..Len(touched) |->
            [line |-> touched[r],
             needles |-> [k \in 1..Len(on(touched[r])) |->
                            LET f == on(touched[r])[k]
                            IN  <<f[1], f[2], f[3], f[4]>>]]]

\* needles() without split_into_lines
needles_unsplit(store) ==
    LET drained == chained_needles(store)
    IN  IF drained.err THEN [out |-> <<>>, err |-> TRUE]
        ELSE Ok(iterable_per_line(with_start_and_end(drained.out)))

\* needles(condensed, _1, _2): the line records; an exception raised by a
\* generator while the folder drains the chain leaves needles() by the same
\* exception, and no line record is delivered.
needles(store) ==
    LET drained == chained_needles(store)
    IN  IF drained.err THEN [out |-> <<>>, err |-> TRUE]
        ELSE Ok(iterable_per_line(with_start_and_end(split_into_lines(drained.out))))

-----------------------------------------------------------------------------
(* Inputs *)

\* The longest table of facts, and the longest call graph, that is drawn
MaxFacts == 2
MaxEdges == 2

SeqsUpTo(S, n) == UNION {[1..k -> S] : k \in 0..n}

\* Spans are (start offset, end offset) pairs.
SpanPool == {<<0, 1>>, <<2, 4>>}

\* A list of facts as a table of the store
List(fs) == [mapping |-> FALSE, vals |-> fs]

\* Facts grouped by kind, as a table of the store
Grouped(fs) == [mapping |-> TRUE, vals |-> fs]

\* The store with no table; a mapping with no key
NoTables == <<>>
NoInherit == <<>>

NoCall == [op |-> "", kind |-> "", condensed_key |-> None]
Called(op) == [op |-> op, kind |-> "", condensed_key |-> None]

Nodes == {"A", "B"} \X SpanPool
Edges == [caller : Nodes, callee : Nodes]

\* A function fact, with or without an override attribute; the override, with
\* or without each of its name keys
Overrides ==
    {[span |-> <<5, 6>>],
     [name |-> "base", span |-> <<5, 6>>],
     [qualname |-> "B::base", span |-> <<5, 6>>],
     [name |-> "base", qualname |-> "B::base", span |-> <<5, 6>>]}

FunctionFacts ==
    LET plain == [name : {"f", "g"}, qualname : {"D::f"}, span : SpanPool]
    IN  plain \cup
        {[name |-> p.name, qualname |-> p.qualname, span |-> p.span, override |-> o] :
            p \in plain, o \in Overrides}

\* Type facts and inheritance maps (parent name -> set of child names)
TypeNamePool == {"Base", "Derived", "Leaf"}

TypeFacts == [name : {"Base", "Derived"}, kind : {"class", "struct"}, span : SpanPool]

InheritMaps ==
    UNION {[ps -> SUBSET TypeNamePool] : ps \in SUBSET {"Base", "Derived"}}

\* Declaration facts; the qualified name is optional
DeclFacts ==
    [name : {"foo"}, qualname : {"ns::foo"}, span : SpanPool]
      \cup [name : {"bar"}, qualname : {"ns::bar"}, span : SpanPool]
      \cup [name : {"bar"}, span : SpanPool]

\* Reference facts carry the kind of entity they refer to
RefFacts ==
    [name : {"foo"}, qualname : {"ns::foo"}, kind : {"function", "typedef"},
     span : SpanPool]
      \cup [name : {"bar"}, kind : {"function", "typedef"}, span : SpanPool]

\* The kinds and alternate table names asked for, as needles() asks for them
Kinds == {"function", "type"}
CondensedKeys == {None, "typedef"}

\* Spans of the file: within each line, and across every run of lines
PipeSpans == {<<0, 1>>, <<1, 2>>, <<0, 4>>, <<1, 3>>, <<2, 2>>, <<3, 4>>}

PipeFunctions == [name : {"foo"}, qualname : {"ns::foo"}, span : PipeSpans]

PipeWarnings == [msg : {"unused"}, opt : {"-Wunused"}, span : {<<0, 0>>, <<1, 3>>}]

PipeRefs ==
    {[name |-> "foo", qualname |-> "ns::foo", kind |-> "function", span |-> <<3, 4>>]}

\* The tables of the store that are in keys
Restrict(store, keys) == [k \in keys |-> store[k]]

\* The stores handed to the pipeline: a table is a list of facts, or is not in
\* the store at all.
PipeStores ==
    {Restrict([function |-> List(fs), ref |-> List(rs), warning |-> List(ws)], keys) :
        fs \in SeqsUpTo(PipeFunctions, MaxFacts),
        rs \in SeqsUpTo(PipeRefs, MaxFacts - 1),
        ws \in SeqsUpTo(PipeWarnings, MaxFacts - 1),
        keys \in SUBSET {"function", "ref", "warning"}}

\* Facts of any kind, with or without the scope they belong to
MemberFacts ==
    [name : {"m"}, span : SpanPool]
      \cup [name : {"m"}, span : SpanPool, scope : {[name |-> "S"], [name |-> "T"]}]

\* A fact that carries every attribute a generator reads, and the same fact
\* with one attribute missing
FullFact(span) ==
    [name |-> "foo", qualname |-> "ns::foo", span |-> span, kind |-> "class",
     type |-> "int ()", msg |-> "unused", opt |-> "-Wunused",
     scope |-> [name |-> "S"],
     override |-> [name |-> "base", qualname |-> "B::base", span |-> <<5, 6>>]]

Optional == {"qualname", "kind", "type", "msg", "opt", "scope", "override"}

Without(f, key) == [k \in DOMAIN f \ {key} |-> f[k]]

AttrFacts ==
    {FullFact(sp) : sp \in SpanPool}
      \cup {Without(FullFact(<<2, 4>>), key) : key \in Optional}
      \cup {[FullFact(<<2, 4>>) EXCEPT !.override = Without(@, "name")]}

\* The facts as references: the kind names the kind of entity referred to
AsRefs(fs) ==
    [i \in 1..Len(fs) |->
        IF Has(fs[i], "kind") THEN [fs[i] EXCEPT !.kind = "function"] ELSE fs[i]]

-----------------------------------------------------------------------------
(* The state machine: the inputs are drawn once; each action drains one     *)
(* generator over them.                                                     *)

inputs == <<condensed, inherit, graph>>

CalleeNeedles ==
    /\ call' = Called("callee_needles")
    /\ result' = Ok(callee_needles(graph))
    /\ UNCHANGED inputs

CallerNeedles ==
    /\ call' = Called("caller_needles")
    /\ result' = Ok(caller_needles(graph))
    /\ UNCHANGED inputs

OverridesNeedles ==
    /\ call' = Called("overrides_needles")
    /\ result' = overrides_needles(condensed)
    /\ UNCHANGED inputs

OverriddenNeedles ==
    /\ call' = Called("overridden_needles")
    /\ result' = overridden_needles(condensed)
    /\ UNCHANGED inputs

ChildNeedles ==
    /\ call' = Called("child_needles")
    /\ result' = child_needles(condensed, inherit)
    /\ UNCHANGED inputs

ParentNeedles ==
    /\ call' = Called("parent_needles")
    /\ result' = parent_needles(condensed, inherit)
    /\ UNCHANGED inputs

QualifiedNeedles ==
    \E kind \in Kinds, condensed_key \in CondensedKeys :
        /\ call' = [op |-> "qualified_needles", kind |-> kind,
                    condensed_key |-> condensed_key]
        /\ result' = qualified_needles(condensed, kind, condensed_key)
        /\ UNCHANGED inputs

RefNeedles ==
    \E kind \in Kinds, condensed_key \in CondensedKeys :
        /\ call' = [op |-> "ref_needles", kind |-> kind,
                    condensed_key |-> condensed_key]
        /\ result' = ref_needles(condensed, kind, condensed_key)
        /\ UNCHANGED inputs

SigNeedles ==
    /\ call' = Called("sig_needles")
    /\ result' = sig_needles(condensed)
    /\ UNCHANGED inputs

MemberNeedles ==
    /\ call' = Called("member_needles")
    /\ result' = member_needles(condensed)
    /\ UNCHANGED inputs

WarningNeedles ==
    /\ call' = Called("warning_needles")
    /\ result' = warning_needles(condensed)
    /\ UNCHANGED inputs

WarningOptNeedles ==
    /\ call' = Called("warning_opt_needles")
    /\ result' = warning_opt_needles(condensed)
    /\ UNCHANGED inputs

Needles ==
    /\ call' = Called("needles")
    /\ result' = needles(condensed)
    /\ UNCHANGED inputs

\* Call graph needles
InitGraph ==
    /\ condensed = NoTables
    /\ inherit = NoInherit
    /\ graph \in SeqsUpTo(Edges, MaxEdges)
    /\ call = NoCall
    /\ result = Ok(<<>>)

NextGraph == CalleeNeedles \/ CallerNeedles

SpecGraph == InitGraph /\ [][NextGraph]_vars

\* Override needles
InitOver ==
    /\ condensed \in {[function |-> List(fs)] : fs \in SeqsUpTo(FunctionFacts, MaxFacts)}
    /\ inherit = NoInherit
    /\ graph = <<>>
    /\ call = NoCall
    /\ result = Ok(<<>>)

NextOver == OverridesNeedles \/ OverriddenNeedles

SpecOver == InitOver /\ [][NextOver]_vars

\* Inheritance needles
InitInherit ==
    /\ condensed \in {[type |-> List(fs)] : fs \in SeqsUpTo(TypeFacts, MaxFacts)}
    /\ inherit \in InheritMaps
    /\ graph = <<>>
    /\ call = NoCall
    /\ result = Ok(<<>>)

NextInherit == ChildNeedles \/ ParentNeedles

SpecInherit == InitInherit /\ [][NextInherit]_vars

\* Declaration needles
InitQualified ==
    /\ condensed \in
          {[function |-> List(fs), type |-> List(<<>>), typedef |-> List(ts)] :
              fs \in SeqsUpTo(DeclFacts, MaxFacts), ts \in SeqsUpTo(DeclFacts, MaxFacts)}
    /\ inherit = NoInherit
    /\ graph = <<>>
    /\ call = NoCall
    /\ result = Ok(<<>>)

NextQualified == QualifiedNeedles

SpecQualified == InitQualified /\ [][NextQualified]_vars

\* Reference needles
InitRef ==
    /\ condensed \in {[ref |-> List(fs)] : fs \in SeqsUpTo(RefFacts, MaxFacts + 1)}
    /\ inherit = NoInherit
    /\ graph = <<>>
    /\ call = NoCall
    /\ result = Ok(<<>>)

NextRef == RefNeedles

SpecRef == InitRef /\ [][NextRef]_vars

\* The pipeline
InitPipe ==
    /\ condensed \in PipeStores
    /\ inherit = NoInherit
    /\ graph = <<>>
    /\ call = NoCall
    /\ result = Ok(<<>>)

NextPipe ==
    \/ Needles
    \/ QualifiedNeedles
    \/ RefNeedles
    \/ WarningNeedles
    \/ WarningOptNeedles

SpecPipe == InitPipe /\ [][NextPipe]_vars

\* Member needles
InitMember ==
    /\ condensed \in
          {Restrict([function |-> List(fs), variable |-> List(vs),
                     impl |-> Grouped(<<[name |-> "m", span |-> <<0, 1>>,
                                         scope |-> [name |-> "S"]]>>)], keys) :
              fs \in SeqsUpTo(MemberFacts, MaxFacts),
              vs \in SeqsUpTo(MemberFacts, MaxFacts),
              keys \in {{"function", "variable"}, {"function", "variable", "impl"}}}
    /\ inherit = NoInherit
    /\ graph = <<>>
    /\ call = NoCall
    /\ result = Ok(<<>>)

NextMember == MemberNeedles

SpecMember == InitMember /\ [][NextMember]_vars

\* Facts with a missing attribute, given to every generator that reads the
\* store
InitAttr ==
    /\ condensed \in
          {[function |-> List(fs), type |-> List(fs), typedef |-> List(fs),
            ref |-> List(AsRefs(fs)), warning |-> List(fs)] :
              fs \in SeqsUpTo(AttrFacts, MaxFacts)}
    /\ inherit = [foo |-> {"foo"}]
    /\ graph = <<>>
    /\ call = NoCall
    /\ result = Ok(<<>>)

NextAttr ==
    \/ SigNeedles
    \/ ChildNeedles
    \/ ParentNeedles
    \/ MemberNeedles
    \/ OverridesNeedles
    \/ OverriddenNeedles
    \/ QualifiedNeedles
    \/ RefNeedles
    \/ WarningNeedles
    \/ WarningOptNeedles
    \/ Needles

SpecAttr == InitAttr /\ [][NextAttr]_vars

\* The occurrences of x in s
Count(x, s) == Cardinality({i \in 1..Len(s) : s[i] = x})

-----------------------------------------------------------------------------
(* Call graph needles *)

\* C1: for every call edge with caller (A, spanA) and callee (B, spanB),
\* callee_needles emits a c-callee needle with value B at the caller's span
\* spanA, and caller_needles emits a c-called-by needle with value A at the
\* callee's span spanB.
C1_CrossWired ==
    /\ call.op = "callee_needles" =>
          \A i \in 1..Len(graph) :
              Count(<< <<"c-callee", graph[i].callee[1]>>, graph[i].caller[2] >>,
                    result.out) >= 1
    /\ call.op = "caller_needles" =>
          \A i \in 1..Len(graph) :
              Count(<< <<"c-called-by", graph[i].caller[1]>>, graph[i].callee[2] >>,
                    result.out) >= 1

-----------------------------------------------------------------------------
(* Override needles *)

\* The function facts that carry an override attribute with the key
Overriding(key) ==
    LET fs == Table(condensed, "function")
    IN  {i \in 1..Len(fs) : Has(fs[i], "override") /\ Has(fs[i].override, key)}

\* C2: for every function fact carrying an override attribute, and for each
\* of the keys name and qualname present on it, overrides_needles emits a
\* c-overrides needle at the overriding function's own span whose value is the
\* override target's name/qualname, and overridden_needles emits a
\* c-overridden needle at override.span whose value is the overriding
\* function's own name/qualname; a key that is absent yields no needle.
C2_OverrideNeedles ==
    LET fs == Table(condensed, "function")
        expected(tag, Val(_, _), Span(_)) ==
            [k \in {"name", "qualname"} |->
                {<< <<tag, Val(fs[i], k)>>, Span(fs[i]) >> : i \in Overriding(k)}]
        agrees(e) ==
            /\ ~result.err
            /\ Len(result.out) = Cardinality(Overriding("name"))
                                   + Cardinality(Overriding("qualname"))
            /\ \A n \in e["name"] \cup e["qualname"] : Count(n, result.out) >= 1
    IN  /\ call.op = "overrides_needles" =>
            agrees(expected("c-overrides",
                            LAMBDA f, k : f.override[k], LAMBDA f : f.span))
        /\ call.op = "overridden_needles" =>
            agrees(expected("c-overridden",
                            LAMBDA f, k : f[k], LAMBDA f : f.override.span))

-----------------------------------------------------------------------------
(* Inheritance needles *)

Children(name) == IF name \in DOMAIN inherit THEN inherit[name] ELSE {}

Parents(name) == {p \in DOMAIN inherit : name \in inherit[p]}

InheritNeedlePool ==
    {<< <<tag, v>>, sp >> : tag \in {"c-child", "c-parent"}, v \in TypeNamePool,
                            sp \in SpanPool}

\* The class facts that owe needle n, when a class named x owes one needle for
\* each member of rel[x]
Owing(n, rel) ==
    LET fs == Table(condensed, "type")
    IN  {i \in 1..Len(fs) :
            fs[i].kind = "class" /\ fs[i].span = n[2] /\ n[1][2] \in rel[fs[i].name]}

\* C5: for every class-kind type fact t with span S, child_needles emits
\* exactly one (c-child, c) needle at S for each c in the inheritance map's
\* child set for t.name (none if t.name is not a key), and parent_needles
\* exactly one (c-parent, p) needle at S for each key p whose child set
\* contains t.name; type facts of another kind yield no needle.
C5_InheritNeedles ==
    LET exactly(tag, rel) ==
            /\ ~result.err
            /\ \A k \in 1..Len(result.out) : result.out[k] \in InheritNeedlePool
            /\ \A n \in InheritNeedlePool :
                  Count(n, result.out) =
                      IF n[1][1] = tag THEN Cardinality(Owing(n, rel)) ELSE 0
    IN  /\ call.op = "child_needles" =>
            exactly("c-child", [x \in TypeNamePool |-> Children(x)])
        /\ call.op = "parent_needles" =>
            exactly("c-parent", [x \in TypeNamePool |-> Parents(x)])

\* A class fact with two children, beside a fact that is no class, has been
\* given its child needles; a class fact with two parents its parent needles.
C5_Witness ==
    LET fs == Table(condensed, "type")
    IN  /\ \E i, j \in 1..Len(fs) : fs[i].kind = "class" /\ fs[j].kind = "struct"
        /\ \/ /\ call.op = "child_needles"
              /\ \E i \in 1..Len(fs) :
                    fs[i].kind = "class" /\ Cardinality(Children(fs[i].name)) = 2
              /\ Len(result.out) >= 2
           \/ /\ call.op = "parent_needles"
              /\ \E i \in 1..Len(fs) :
                    fs[i].kind = "class" /\ Cardinality(Parents(fs[i].name)) = 2
              /\ Len(result.out) >= 2

-----------------------------------------------------------------------------
(* Declaration and reference needles *)

\* The table, or the kind of reference, the call selects
Selected == IF call.condensed_key # None THEN call.condensed_key ELSE call.kind

\* C3: for every fact f in the table selected by the requested kind (or by the
\* explicit alternate table name), qualified_needles emits exactly one needle
\* whose span is f.span and whose value is {name: f.name, qualname:
\* f.qualname}; there are as many needles as facts, in table order, with no
\* filtering.  (A fact has the name and qualname the claim speaks of.)
C3_QualifiedNeedles ==
    call.op = "qualified_needles" =>
        LET fs == condensed[Selected].vals
        IN  Lacking(fs, {"name", "qualname", "span"}) = {} =>
              /\ ~result.err
              /\ Len(result.out) = Len(fs)
              /\ \A i \in 1..Len(fs) :
                    /\ result.out[i][1] = "c_" \o call.kind
                    /\ result.out[i][2] = [name |-> fs[i].name,
                                           qualname |-> fs[i].qualname]
                    /\ result.out[i][3] = fs[i].span

\* Two different facts of a table named by the alternate key have been given
\* their needles.
C3_Witness ==
    /\ call.op = "qualified_needles"
    /\ call.kind = "type" /\ call.condensed_key = "typedef"
    /\ Len(condensed["typedef"].vals) = 2
    /\ condensed["typedef"].vals[1] # condensed["typedef"].vals[2]
    /\ condensed["function"].vals # condensed["typedef"].vals
    /\ Len(result.out) = 2

\* The reference facts whose kind is the one asked for
Matching ==
    LET fs == condensed["ref"].vals
    IN  {i \in 1..Len(fs) : fs[i].kind = Selected}

\* C4: ref_needles emits a needle for a reference fact r if and only if
\* r.kind equals the requested kind (or alternate key); the needle is tagged
\* <kind>_ref (with the plugin's c_ prefix), carries {name, qualname} of r and
\* r's own span; there are as many needles as matching facts, and a
\* non-matching reference is skipped, never an error.
C4_RefNeedles ==
    call.op = "ref_needles" =>
        LET fs == condensed["ref"].vals
            m  == Ascending(Matching)
            incomplete == {i \in Matching : ~Has(fs[i], "qualname")}
        IN  /\ result.err <=> incomplete # {}
            /\ incomplete = {} =>
                  /\ Len(result.out) = Cardinality(Matching)
                  /\ \A k \in 1..Len(m) :
                        /\ result.out[k][1] = "c_" \o call.kind \o "_ref"
                        /\ result.out[k][2] = [name |-> fs[m[k]].name,
                                               qualname |-> fs[m[k]].qualname]
                        /\ result.out[k][3] = fs[m[k]].span

\* A matching reference between two that do not match, one of them without a
\* qualified name, has been given the only needle.
C4_Witness ==
    LET fs == condensed["ref"].vals
    IN  /\ call.op = "ref_needles"
        /\ call.kind = "type" /\ call.condensed_key = "typedef"
        /\ Len(fs) = 3
        /\ Matching = {2}
        /\ ~Has(fs[1], "qualname")
        /\ result.out = << <<"c_type_ref", [name |-> "foo", qualname |-> "ns::foo"],
                             fs[2].span>> >>

-----------------------------------------------------------------------------
(* The pipeline *)

\* The fragments of the record of line l (none when no record has the line)
OnLine(l) ==
    LET rs == {r \in 1..Len(result.out) : result.out[r].line = l}
    IN  IF rs = {} THEN <<>> ELSE result.out[CHOOSE r \in rs : TRUE].needles

\* The fragment that a needle with this tag, value and span leaves where it
\* starts
StartFragment(tag, value, span) ==
    LET l == LineOf(span[1])
    IN  <<tag, value, span[1] - LineStart(l), Min2(span[2], LineEnd(l)) - LineStart(l)>>

\* Every fact of a table has left its fragment on the line where it starts
Folded(table, tag, Value(_)) ==
    LET fs == Table(condensed, table)
    IN  \A i \in 1..Len(fs) :
            Count(StartFragment(tag, Value(fs[i]), fs[i].span),
                  OnLine(LineOf(fs[i].span[1]))) >= 1

\* The tags found in the line records
TagsFolded ==
    UNION {{result.out[r].needles[k][1] : k \in 1..Len(result.out[r].needles)} :
              r \in 1..Len(result.out)}

\* The tables needles() reads
Expected ==
    {"function", "ref", "type", "typedef", "variable", "namespace",
     "namespace_alias", "warning"}

Rank(tag) ==
    CASE tag = "c_function" -> 1
      [] tag = "c_function_ref" -> 2
      [] tag = "c_type" -> 3
      [] tag = "c_type_ref" -> 4
      [] tag = "c_var" -> 5
      [] tag = "c_var_ref" -> 6
      [] tag = "c_namespace" -> 7
      [] tag = "c_namespace_ref" -> 8
      [] tag = "c_namespace_alias" -> 9
      [] tag = "c_namespace_alias_ref" -> 10
      [] tag = "c_warning" -> 11
      [] tag = "c_warning_opt" -> 12

\* The needles of the stream s that touch line l, as indexes of s
Touching(s, l) ==
    {k \in 1..Len(s) : LineOf(s[k][3][1]) <= l /\ l <= LineOf(s[k][3][2])}

-----------------------------------------------------------------------------
(* Member needles *)

MemberNeedlePool ==
    {<< <<"c-member", v>>, sp >> : v \in {"S", "T"}, sp \in SpanPool}

\* The facts, in the lists of the store, that carry a scope and owe needle n
Members(n) ==
    {<<t, i>> \in {t \in DOMAIN condensed : ~condensed[t].mapping} \X (1..MaxFacts + 1) :
        /\ i <= Len(condensed[t].vals)
        /\ Has(condensed[t].vals[i], "scope")
        /\ condensed[t].vals[i].scope.name = n[1][2]
        /\ condensed[t].vals[i].span = n[2]}

\* C8: for every fact in any fact table of the store that carries a scope,
\* member_needles emits exactly one c-member needle at the fact's own span
\* with value scope.name; facts without a scope yield nothing, and tables that
\* are mappings rather than sequences of facts are skipped without error.
C8_MemberNeedles ==
    call.op = "member_needles" =>
        /\ ~result.err
        /\ \A k \in 1..Len(result.out) : result.out[k] \in MemberNeedlePool
        /\ \A n \in MemberNeedlePool : Count(n, result.out) = Cardinality(Members(n))

\* Two tables each hold a fact with a scope and one without, beside a table
\* that is a mapping, and the two needles have been emitted.
C8_Witness ==
    /\ call.op = "member_needles"
    /\ "impl" \in DOMAIN condensed
    /\ \A t \in {"function", "variable"} :
          /\ Len(condensed[t].vals) = 2
          /\ Cardinality({i \in 1..2 : Has(condensed[t].vals[i], "scope")}) = 1
    /\ Len(result.out) = 2

-----------------------------------------------------------------------------
(* Facts with a missing attribute *)

\* The facts every table holds
Facts == condensed["function"].vals

\* The facts before the first one that lacks a key of keys
Before(keys) ==
    IF Lacking(Facts, keys) = {} THEN Len(Facts) ELSE Min(Lacking(Facts, keys)) - 1

\* A lazy generator that reads keys of every fact: it raises at the first fact
\* that lacks one, having yielded a needle for each fact before it.
RaisesAt(keys) ==
    /\ result.err <=> Lacking(Facts, keys) # {}
    /\ Len(result.out) = Before(keys)

\* A list of needles that reads keys of every fact: no list when a fact lacks
\* one.
RaisesWhole(keys) ==
    /\ result.err <=> Lacking(Facts, keys) # {}
    /\ Len(result.out) = IF result.err THEN 0 ELSE Len(Facts)

\* The facts that carry key
Carrying(key) == {i \in 1..Len(Facts) : Has(Facts[i], key)}

\* C6 as amended: a fact without a scope (member_needles), or without an
\* override or without the name key on it (overrides_needles,
\* overridden_needles), is passed over and every other fact still yields its
\* needle.  A fact that lacks another attribute a generator reads (qualname,
\* kind, type, msg, opt) makes the generator raise when it reaches the fact:
\* a lazy generator has yielded the needles of the facts before it and yields
\* none after it, the warning lists yield nothing, and needles() raises.
C6_MissingAttribute ==
    /\ call.op = "sig_needles" => RaisesAt({"type"})
    /\ call.op = "qualified_needles" => RaisesAt({"qualname"})
    /\ call.op \in {"child_needles", "parent_needles"} => RaisesAt({"kind"})
    /\ call.op = "ref_needles" =>
          IF Selected = "function" THEN RaisesAt({"kind", "qualname"})
          ELSE /\ result.err <=> Lacking(Facts, {"kind"}) # {}
               /\ result.out = <<>>
    /\ call.op = "warning_needles" => RaisesWhole({"msg"})
    /\ call.op = "warning_opt_needles" => RaisesWhole({"opt"})
    /\ call.op = "member_needles" =>
          /\ ~result.err
          /\ Len(result.out) = Cardinality(DOMAIN condensed) * Cardinality(Carrying("scope"))
    /\ call.op \in {"overrides_needles", "overridden_needles"} =>
          /\ ~result.err
          /\ Len(result.out) = Cardinality(Overriding("name"))
                                 + Cardinality(Overriding("qualname"))
    /\ call.op = "needles" =>
          /\ result.err <=> Lacking(Facts, {"qualname", "kind", "msg", "opt"}) # {}
          /\ result.err => result.out = <<>>

\* C6 as claimed: all generators are total; a fact that lacks an attribute a
\* generator expects is skipped, every other fact of the pass still yields
\* its needle, and the pass never aborts with an error.
C6_Total ==
    /\ ~result.err
    /\ call.op = "sig_needles" => Len(result.out) = Cardinality(Carrying("type"))
    /\ call.op = "qualified_needles" => Len(result.out) = Cardinality(Carrying("qualname"))
    /\ call.op = "warning_needles" => Len(result.out) = Cardinality(Carrying("msg"))
    /\ call.op = "warning_opt_needles" => Len(result.out) = Cardinality(Carrying("opt"))

\* A fact without a qualified name has followed a complete one through
\* qualified_needles.
C6_Witness ==
    /\ call.op = "qualified_needles"
    /\ Len(Facts) = 2
    /\ Has(Facts[1], "qualname")
    /\ ~Has(Facts[2], "qualname")
    /\ result.err
    /\ Len(result.out) = 1

=============================================================================
